---------------------------- MODULE Spec2Model ----------------------------
(***************************************************************************)
(* Markdown -> Tana Paste conversion (src/tana_converter.py)               *)
(* as a state machine.  Texts are TLA+ strings; a character is a string of  *)
(* length 1.  The model follows main of src/tana_converter.py:             *)
(*   convert_to_tana  (parse_line, build_hierarchy, the emitter loop),     *)
(*   chunk_content    (the chunking post-pass on the converted text).      *)
(* The loops of the source are run one iteration per step, so that the     *)
(* loop variables of the source are the variables of the model.            *)
(***************************************************************************)
EXTENDS Integers, Sequences, FiniteSets, TLC

\* --------------------------------------------------------------- bounds
\* Longest document (in lines) drawn from LineShapes.
MaxLines == 3
\* Largest chunk budget (--chunk-size) handed to chunk_content.
MaxBudget == 18

\* ------------------------------------------------------- python strings
NoneVal == "<None>"

\* Python's \s and str.strip() whitespace.
WS == {" ", "\t", "\n", "\r", "\f"}
Digit == {"0", "1", "2", "3", "4", "5", "6", "7", "8", "9"}
Upper == {"A", "B", "C", "D", "E", "F", "G", "H", "I", "J", "K", "L", "M",
          "N", "O", "P", "Q", "R", "S", "T", "U", "V", "W", "X", "Y", "Z"}
Lower == {"a", "b", "c", "d", "e", "f", "g", "h", "i", "j", "k", "l", "m",
          "n", "o", "p", "q", "r", "s", "t", "u", "v", "w", "x", "y", "z"}

\* s[i] of Python, 0-based.
At(s, i) == SubSeq(s, i + 1, i + 1)
\* s[i:j] of Python for 0 <= i <= j <= len(s).
Slice(s, i, j) == SubSeq(s, i + 1, j)
\* s[i:]
From(s, i) == SubSeq(s, i + 1, Len(s))

startswith(s, p) == Len(p) <= Len(s) /\ SubSeq(s, 1, Len(p)) = p
endswith(s, p) == Len(p) <= Len(s) /\ SubSeq(s, Len(s) - Len(p) + 1, Len(s)) = p
\* p in s
contains(s, p) == \E i \in 0..(Len(s) - Len(p)) : Slice(s, i, i + Len(p)) = p

\* Number of leading whitespace characters from offset i on, and the
\* length left once the trailing whitespace of the first n is dropped.
LeadWS(s, i) ==
    CHOOSE k \in i..Len(s) :
      /\ \A j \in i..(k - 1) : At(s, j) \in WS
      /\ k = Len(s) \/ At(s, k) \notin WS
TrailWS(s, n) ==
    CHOOSE k \in 0..n :
      /\ \A j \in k..(n - 1) : At(s, j) \in WS
      /\ k = 0 \/ At(s, k - 1) \notin WS

rstrip(s) == Slice(s, 0, TrailWS(s, Len(s)))
lstrip(s) == From(s, LeadWS(s, 0))
strip(s) == rstrip(lstrip(s))

\* s.split('\n'): the pieces between line breaks; "" splits into <<"">>.
Breaks(s) == {i \in 0..(Len(s) - 1) : At(s, i) = "\n"}
\* The offset of the k-th line break (from 1).
Break(s, k) == CHOOSE p \in Breaks(s) : Cardinality({q \in Breaks(s) : q < p}) = k - 1
split(s) ==
    [k \in 1..(Cardinality(Breaks(s)) + 1) |->
       Slice(s, IF k = 1 THEN 0 ELSE Break(s, k - 1) + 1,
                IF k = Cardinality(Breaks(s)) + 1 THEN Len(s) ELSE Break(s, k))]

\* sep.join(parts)
RECURSIVE join(_, _)
join(sep, parts) ==
    IF Len(parts) = 0 THEN ""
    ELSE IF Len(parts) = 1 THEN parts[1]
    ELSE parts[1] \o sep \o join(sep, Tail(parts))

\* s * n
RECURSIVE repeat(_, _)
repeat(s, n) == IF n <= 0 THEN "" ELSE s \o repeat(s, n - 1)

\* s.zfill(2) for a string of digits.
zfill2(s) == IF Len(s) < 2 THEN repeat("0", 2 - Len(s)) \o s ELSE s

\* int(s) for a string of decimal digits.
DigitVal(c) == CHOOSE n \in 0..9 : ToString(n) = c
RECURSIVE int(_)
int(s) == IF Len(s) = 0 THEN 0
          ELSE 10 * int(Slice(s, 0, Len(s) - 1)) + DigitVal(At(s, Len(s) - 1))


\* ------------------------------------------------ regular expressions
\* Python's re, as a backtracking matcher over a pattern tree.  A match is
\* [ok, e |-> end offset, c |-> captured groups]; a group that did not take
\* part holds NoneVal.
Lit(str) == [t |-> "lit", s |-> str]
Set(S) == [t |-> "set", s |-> S]
NSet(S) == [t |-> "nset", s |-> S]
Dot == [t |-> "dot"]
Cat(rs) == [t |-> "cat", rs |-> rs]
Alt(rs) == [t |-> "alt", rs |-> rs]
\* Greedy r{lo,hi}; hi = Inf is unbounded.
Inf == 0 - 1
Rep(r, lo, hi) == [t |-> "rep", r |-> r, lo |-> lo, hi |-> hi, lazy |-> FALSE]
Lazy(r, lo, hi) == [t |-> "rep", r |-> r, lo |-> lo, hi |-> hi, lazy |-> TRUE]
Opt(r) == Rep(r, 0, 1)
Star(r) == Rep(r, 0, Inf)
Plus(r) == Rep(r, 1, Inf)
Grp(n, r) == [t |-> "grp", n |-> n, r |-> r]
NegLook(r) == [t |-> "neglook", r |-> r]
\* ^ and $ without and with re.MULTILINE
Bol == [t |-> "bol", m |-> FALSE]
Eol == [t |-> "eol", m |-> FALSE]
BolM == [t |-> "bol", m |-> TRUE]
EolM == [t |-> "eol", m |-> TRUE]

\* No group has matched yet (no pattern of the source has more than 7).
NoCaps == [n \in 1..7 |-> NoneVal]
NoMatch == [ok |-> FALSE, e |-> 0, c |-> NoCaps]

\* Whether pattern r, which consumes exactly one character, accepts ch.
IsChar(r) == r.t \in {"set", "nset", "dot"} \/ (r.t = "lit" /\ Len(r.s) = 1)
Accepts(r, ch) ==
    CASE r.t = "set" -> ch \in r.s
      [] r.t = "nset" -> ch \notin r.s
      [] r.t = "dot" -> ch # "\n"
      [] r.t = "lit" -> ch = r.s

\* How many characters from offset i on r accepts in a row, at most hi.
Run(r, s, i, hi) ==
    LET most == IF hi = Inf \/ hi > Len(s) - i THEN Len(s) - i ELSE hi
    IN  CHOOSE k \in 0..most :
          /\ \A j \in 0..(k - 1) : Accepts(r, At(s, i + j))
          /\ k = most \/ ~Accepts(r, At(s, i + k))

\* M(st, s, i, c): the backtracking search.  st is the sequence of patterns
\* still to be matched one after the other from offset i; the result is the
\* first match in the order the engine tries them, or NoMatch.
RECURSIVE M(_, _, _, _)
RECURSIVE MAlt(_, _, _, _, _, _)
RECURSIVE MRun(_, _, _, _, _, _, _)

M(st, s, i, c) ==
    IF Len(st) = 0 THEN [ok |-> TRUE, e |-> i, c |-> c]
    ELSE LET r == Head(st)
             rest == Tail(st)
         IN  CASE r.t = "lit" ->
                    IF startswith(From(s, i), r.s) THEN M(rest, s, i + Len(r.s), c)
                    ELSE NoMatch
               [] r.t \in {"set", "nset", "dot"} ->
                    IF i < Len(s) /\ Accepts(r, At(s, i)) THEN M(rest, s, i + 1, c)
                    ELSE NoMatch
               [] r.t = "bol" ->
                    IF i = 0 \/ (r.m /\ At(s, i - 1) = "\n") THEN M(rest, s, i, c)
                    ELSE NoMatch
               [] r.t = "eol" ->
                    IF \/ i = Len(s)
                       \/ (i = Len(s) - 1 /\ At(s, i) = "\n")
                       \/ (r.m /\ i < Len(s) /\ At(s, i) = "\n")
                    THEN M(rest, s, i, c) ELSE NoMatch
               [] r.t = "neglook" ->
                    IF M(<<r.r>>, s, i, c).ok THEN NoMatch ELSE M(rest, s, i, c)
               [] r.t = "grp" ->
                    M(<<r.r, [t |-> "endgrp", n |-> r.n, b |-> i]>> \o rest, s, i, c)
               [] r.t = "endgrp" ->
                    M(rest, s, i, [c EXCEPT ![r.n] = Slice(s, r.b, i)])
               [] r.t = "cat" -> M(r.rs \o rest, s, i, c)
               [] r.t = "alt" -> MAlt(r.rs, 1, rest, s, i, c)
               [] r.t = "rep" ->
                    IF IsChar(r.r)
                    THEN LET run == Run(r.r, s, i, r.hi)
                         IN  MRun(r, IF r.lazy THEN r.lo ELSE run, run, rest, s, i, c)
                    ELSE M(<<[t |-> "again", r |-> r, done |-> 0, b |-> i - 1]>> \o rest,
                           s, i, c)
               [] r.t = "again" ->
                    \* done iterations of r.r are matched, the last from offset
                    \* b.  An iteration that consumed nothing is not repeated.
                    LET rep == r.r
                        stop == IF r.done >= rep.lo THEN M(rest, s, i, c) ELSE NoMatch
                        more == IF (rep.hi # Inf /\ r.done >= rep.hi) \/ r.b = i
                                THEN NoMatch
                                ELSE M(<<rep.r, [r EXCEPT !.done = r.done + 1, !.b = i]>>
                                       \o rest, s, i, c)
                    IN  IF rep.lazy THEN (IF stop.ok THEN stop ELSE more)
                        ELSE (IF more.ok THEN more ELSE stop)

\* The alternatives from the k-th on, in order.
MAlt(rs, k, rest, s, i, c) ==
    IF k > Len(rs) THEN NoMatch
    ELSE LET a == M(<<rs[k]>> \o rest, s, i, c)
         IN  IF a.ok THEN a ELSE MAlt(rs, k + 1, rest, s, i, c)

\* A repetition of a one-character pattern that accepts run characters from
\* offset i: k of them are taken, then fewer (greedy) or more (lazy).
MRun(r, k, run, rest, s, i, c) ==
    IF k < r.lo \/ k > run THEN NoMatch
    ELSE LET a == M(rest, s, i + k, c)
         IN  IF a.ok THEN a
             ELSE MRun(r, IF r.lazy THEN k + 1 ELSE k - 1, run, rest, s, i, c)

\* A match object: the result a of the search from offset b, with its start.
Found(a, b) == [ok |-> a.ok, b |-> b, e |-> a.e, c |-> a.c]
MatchAt(r, s, b) == Found(M(<<r>>, s, b, NoCaps), b)

\* re.match(r, s): the match at offset 0; ok is FALSE for None.
re_match(r, s) == MatchAt(r, s, 0)

\* The start of the leftmost match of r in s from offset i on.
Leftmost(r, s, i) ==
    CHOOSE j \in i..Len(s) :
      /\ MatchAt(r, s, j).ok
      /\ \A k \in i..(j - 1) : ~MatchAt(r, s, k).ok

\* re.finditer(r, s): the leftmost non-overlapping matches from offset i,
\* each [ok, b |-> start, e |-> end, c |-> groups].  The scan resumes where
\* the match m ended (one character on after an empty match).
RECURSIVE finditer(_, _, _)
RECURSIVE Matches(_, _, _)
finditer(r, s, i) ==
    IF \A j \in i..Len(s) : ~MatchAt(r, s, j).ok THEN <<>>
    ELSE Matches(r, s, MatchAt(r, s, Leftmost(r, s, i)))
Matches(r, s, m) == <<m>> \o finditer(r, s, IF m.e = m.b THEN m.b + 1 ELSE m.e)

\* The text s with the k-th and later matches of ms replaced by repl[k],
\* copied from offset i on.
RECURSIVE Splice(_, _, _, _, _)
Splice(s, ms, repl, k, i) ==
    IF k > Len(ms) THEN From(s, i)
    ELSE Slice(s, i, ms[k].b) \o repl[k] \o Splice(s, ms, repl, k + 1, ms[k].e)

\* m.group(0)
group0(s, m) == Slice(s, m.b, m.e)

\* len(m.groups()) for a match of r: the capturing groups of the pattern.
RECURSIVE NGroups(_)
RECURSIVE NGroupsAll(_, _)
NGroups(r) ==
    CASE r.t = "grp" -> 1 + NGroups(r.r)
      [] r.t \in {"rep", "neglook"} -> NGroups(r.r)
      [] r.t \in {"cat", "alt"} -> NGroupsAll(r.rs, 1)
      [] OTHER -> 0
NGroupsAll(rs, k) == IF k > Len(rs) THEN 0 ELSE NGroups(rs[k]) + NGroupsAll(rs, k + 1)

\* ------------------------------------------------------ date recognizer
\* U+2318 (the calendar-app artifact of the source's patterns) cannot be
\* written in a TLA+ string; it is written "@" here.
Cmd == "@"

D(n, m) == Rep(Set(Digit), n, m)
Word == Cat(<<Set(Upper), Plus(Set(Lower))>>)
Ordinal == Opt(Alt(<<Lit("st"), Lit("nd"), Lit("rd"), Lit("th")>>))
Weekday == Opt(Cat(<<Alt(<<Lit("Mon"), Lit("Tue"), Lit("Wed"), Lit("Thu"),
                           Lit("Fri"), Lit("Sat"), Lit("Sun")>>),
                     Lit(","), Plus(Set(WS))>>))
IsoDate == Cat(<<D(4, 4), Lit("-"), D(2, 2), Lit("-"), D(2, 2)>>)
Clock == Cat(<<D(2, 2), Lit(":"), D(2, 2)>>)

get_month_number(month) ==
    CASE month \in {"January", "Jan"} -> "01"
      [] month \in {"February", "Feb"} -> "02"
      [] month \in {"March", "Mar"} -> "03"
      [] month \in {"April", "Apr"} -> "04"
      [] month = "May" -> "05"
      [] month \in {"June", "Jun"} -> "06"
      [] month \in {"July", "Jul"} -> "07"
      [] month \in {"August", "Aug"} -> "08"
      [] month \in {"September", "Sep"} -> "09"
      [] month \in {"October", "Oct"} -> "10"
      [] month \in {"November", "Nov"} -> "11"
      [] month \in {"December", "Dec"} -> "12"
      [] OTHER -> "01"

\* The patterns of parse_date, in the order it tries them.
week_re == Cat(<<Bol, Lit("Week "), Grp(1, D(1, 2)), Lit(","), Star(Set(WS)),
                 Grp(2, D(4, 4)), Eol>>)
week_range_re == Cat(<<Bol, Lit("Weeks "), Grp(1, D(1, 2)), Lit("-"), Grp(2, D(1, 2)),
                       Lit(","), Star(Set(WS)), Grp(3, D(4, 4)), Eol>>)
iso_time_re == Cat(<<Bol, Grp(1, IsoDate), Plus(Set(WS)), Grp(2, Clock), Eol>>)
legacy_time_re ==
    Cat(<<Bol, Weekday, Grp(1, Word), Plus(Set(WS)), Grp(2, D(1, 2)), Ordinal,
          Lit(","), Star(Set(WS)), Grp(3, D(4, 4)),
          Opt(Cat(<<Lit(","), Star(Set(WS)), Grp(4, D(1, 2)), Lit(":"), Grp(5, D(2, 2)),
                    Star(Set(WS)), Grp(6, Alt(<<Lit("AM"), Lit("PM")>>))>>)),
          Eol>>)
duration_re ==
    Cat(<<Bol, Grp(1, Word), Plus(Set(WS)), Grp(2, D(1, 2)), Ordinal,
          Star(Set(WS)), Lit("-"), Star(Set(WS)),
          Grp(3, Word), Plus(Set(WS)), Grp(4, D(1, 2)), Ordinal,
          Lit(","), Star(Set(WS)), Grp(5, D(4, 4)), Eol>>)
iso_duration_re == Cat(<<Bol, Grp(1, IsoDate), Lit("/"), Grp(2, IsoDate), Eol>>)
iso_re == Cat(<<Bol, Grp(1, IsoDate), Eol>>)
month_year_re ==
    Cat(<<Bol, Weekday, Grp(1, Word), Opt(Plus(Set(WS))),
          Opt(Cat(<<Lit(Cmd), Plus(Set(WS))>>)), Grp(2, D(4, 4)), Eol>>)
year_re == Cat(<<Bol, Opt(Cat(<<Lit(Cmd), Plus(Set(WS))>>)), Grp(1, D(4, 4)), Eol>>)

\* What a call returns: a value, None, or the exception it raises.
Raise(exc) == [kind |-> "raise", exc |-> exc]
None == [kind |-> "none"]
ParsedDate(type, value, is_processed) ==
    [kind |-> "date", type |-> type, value |-> value, is_processed |-> is_processed]

\* "a, b, c = m.groups()": the tuple has one entry per group of the
\* pattern; a target list of another length raises ValueError.
Unpacks(r, ntargets) == NGroups(r) = ntargets

\* The hour of the 24-hour clock (line 159).
adjusted_hour(h, ampm) ==
    IF ampm = "PM" /\ h < 12 THEN h + 12
    ELSE IF ampm = "AM" /\ h = 12 THEN 0
    ELSE h

\* The legacy format's result once its groups are bound (lines 157-161).
legacy_value(g) ==
    IF g[4] # NoneVal /\ g[4] # "" /\ g[5] # NoneVal /\ g[5] # ""
       /\ g[6] # NoneVal /\ g[6] # ""
    THEN ParsedDate("time",
           g[3] \o "-" \o get_month_number(g[1]) \o "-" \o zfill2(g[2]) \o " "
           \o zfill2(ToString(adjusted_hour(int(g[4]), g[6]))) \o ":" \o g[5], FALSE)
    ELSE ParsedDate("simple",
           g[3] \o "-" \o get_month_number(g[1]) \o "-" \o zfill2(g[2]), FALSE)

\* What each format yields from its match m once the groups are unpacked.
week_value(m) == ParsedDate("week", m.c[3] \o "-W" \o zfill2(m.c[2]), FALSE)
week_range_value(m) ==
    ParsedDate("duration", m.c[4] \o "-W" \o zfill2(m.c[2]) \o "/W" \o zfill2(m.c[3]), FALSE)
iso_time_value(m) == ParsedDate("time", m.c[2] \o " " \o m.c[3], FALSE)
duration_value(m) ==
    ParsedDate("duration",
               m.c[6] \o "-" \o get_month_number(m.c[2]) \o "-" \o zfill2(m.c[3]) \o "/"
               \o m.c[6] \o "-" \o get_month_number(m.c[4]) \o "-" \o zfill2(m.c[5]), FALSE)
iso_duration_value(m) == ParsedDate("duration", m.c[2] \o "/" \o m.c[3], FALSE)
month_year_value(m) ==
    ParsedDate("simple", m.c[3] \o "-" \o get_month_number(m.c[2]), FALSE)

parse_date(text) ==
    IF startswith(text, "[[date:") /\ endswith(text, "]]")
    THEN ParsedDate("simple", text, TRUE)
    ELSE IF re_match(week_re, text).ok
    THEN \* _, week, year = week_match.groups()
         IF ~Unpacks(week_re, 3) THEN Raise("ValueError")
         ELSE week_value(re_match(week_re, text))
    ELSE IF re_match(week_range_re, text).ok
    THEN \* _, week1, week2, year = week_range_match.groups()
         IF ~Unpacks(week_range_re, 4) THEN Raise("ValueError")
         ELSE week_range_value(re_match(week_range_re, text))
    ELSE IF re_match(iso_time_re, text).ok
    THEN \* _, date, time = iso_time_match.groups()
         IF ~Unpacks(iso_time_re, 3) THEN Raise("ValueError")
         ELSE iso_time_value(re_match(iso_time_re, text))
    ELSE IF re_match(legacy_time_re, text).ok
    THEN \* _, month, day, year, hour, min, ampm = legacy_time_match.groups()
         IF ~Unpacks(legacy_time_re, 7) THEN Raise("ValueError")
         ELSE legacy_value([n \in 1..6 |-> re_match(legacy_time_re, text).c[n + 1]])
    ELSE IF re_match(duration_re, text).ok
    THEN \* _, month1, day1, month2, day2, year = duration_match.groups()
         IF ~Unpacks(duration_re, 6) THEN Raise("ValueError")
         ELSE duration_value(re_match(duration_re, text))
    ELSE IF re_match(iso_duration_re, text).ok
    THEN \* _, start, end = iso_duration_match.groups()
         IF ~Unpacks(iso_duration_re, 3) THEN Raise("ValueError")
         ELSE iso_duration_value(re_match(iso_duration_re, text))
    ELSE IF re_match(iso_re, text).ok THEN ParsedDate("simple", re_match(iso_re, text).c[1], FALSE)
    ELSE IF re_match(month_year_re, text).ok
    THEN \* _, month, year = month_year_match.groups()
         IF ~Unpacks(month_year_re, 3) THEN Raise("ValueError")
         ELSE month_year_value(re_match(month_year_re, text))
    ELSE IF re_match(year_re, text).ok
    THEN ParsedDate("simple", re_match(year_re, text).c[1], FALSE)
    ELSE None

format_tana_date(date) ==
    IF date.is_processed THEN date.value ELSE "[[date:" \o date.value \o "]]"

\* A text result.
Str(v) == [kind |-> "str", v |-> v]

\* ------------------------------------------------------ inline rewriter
\* Bracketed references, bare URLs and markdown links (lines 207, 243).
protected_re ==
    Alt(<<Cat(<<Lit("[["), Lazy(Dot, 0, Inf), Lit("]]")>>),
          Cat(<<Lit("http"), Opt(Lit("s")), Lit("://"), Plus(NSet(WS \cup {")"}))>>),
          Cat(<<Lit("["), Plus(NSet({"]"})), Lit("]("), Plus(NSet({")"})), Lit(")")>>)>>)
placeholder_re == Cat(<<Lit("__PROTECTED_"), Grp(1, Plus(Set(Digit))), Lit("__")>>)

\* The masking pass: the k-th protected span (from 0) becomes
\* __PROTECTED_k__ and is kept in protected_items.
spans(text, ms) == [k \in 1..Len(ms) |-> group0(text, ms[k])]
protected_items(text) == spans(text, finditer(protected_re, text, 0))
masked_text(text, ms) ==
    Splice(text, ms, [k \in 1..Len(ms) |-> "__PROTECTED_" \o ToString(k - 1) \o "__"], 1, 0)
protect(text) == masked_text(text, finditer(protected_re, text, 0))

\* The unmasking pass: protected_items[int(m.group(1))], an IndexError when
\* the text names a placeholder that was never made.
restored(text, items, ms) ==
    IF \E k \in 1..Len(ms) : int(ms[k].c[1]) >= Len(items)
    THEN Raise("IndexError")
    ELSE Str(Splice(text, ms, [k \in 1..Len(ms) |-> items[int(ms[k].c[1]) + 1]], 1, 0))
restore(text, items) == restored(text, items, finditer(placeholder_re, text, 0))

IsoLike == Cat(<<D(4, 4),
                 Opt(Cat(<<Lit("-"), D(2, 2), Opt(Cat(<<Lit("-"), D(2, 2)>>))>>)),
                 Opt(Cat(<<Plus(Set(WS)), Clock>>))>>)
Bracketed == Cat(<<Lit("[["), Lazy(Dot, 0, Inf), Lit("]]")>>)
date_pattern ==
    Alt(<<Cat(<<Opt(Lit("[[date:")),
                Alt(<<Bracketed,
                      Cat(<<IsoLike,
                            Opt(Cat(<<Lit("/"), Alt(<<Bracketed, IsoLike>>)>>))>>)>>),
                Opt(Lit("]]"))>>),
          Cat(<<Lit("Week "), D(1, 2), Lit(","), Star(Set(WS)), D(4, 4)>>),
          Cat(<<Lit("Weeks "), D(1, 2), Lit("-"), D(1, 2), Lit(","), Star(Set(WS)),
                D(4, 4)>>),
          Cat(<<Word, Plus(Set(WS)), Opt(Cat(<<Lit(Cmd), Plus(Set(WS))>>)), D(4, 4)>>),
          Cat(<<Word, Lit(" "), D(1, 2), Ordinal, Lit(","), Star(Set(WS)), D(4, 4),
                Opt(Cat(<<Lit(","), Star(Set(WS)), D(1, 2), Lit(":"), D(2, 2),
                          Star(Set(WS)), Alt(<<Lit("AM"), Lit("PM")>>)>>))>>),
          Cat(<<Word, Lit(" "), D(1, 2), Ordinal, Star(Set(WS)), Lit("-"),
                Star(Set(WS)), Word, Lit(" "), D(1, 2), Ordinal, Lit(","),
                Star(Set(WS)), D(4, 4)>>)>>)

\* replace_date (lines 213-215) on every match ms[k] of the masked text,
\* parsed[k] being what parse_date made of it; the first exception raised
\* leaves re.sub, else the protected spans are put back (lines 218-220).
replaced_dates(masked, items, ms, parsed) ==
    IF \E k \in 1..Len(ms) : parsed[k].kind = "raise"
    THEN parsed[CHOOSE k \in 1..Len(ms) :
                  /\ parsed[k].kind = "raise"
                  /\ \A j \in 1..(k - 1) : parsed[j].kind # "raise"]
    ELSE restore(Splice(masked, ms,
                        [k \in 1..Len(ms) |->
                           IF parsed[k].kind = "date" THEN format_tana_date(parsed[k])
                           ELSE group0(masked, ms[k])], 1, 0),
                 items)
parsed_dates(masked, items, ms) ==
    replaced_dates(masked, items, ms,
                   [k \in 1..Len(ms) |-> parse_date(group0(masked, ms[k]))])
dates_of(masked, items) == parsed_dates(masked, items, finditer(date_pattern, masked, 0))
convert_dates(text) == dates_of(protect(text), protected_items(text))

\* The replacements handed to re.sub, for a match m in s: replace_field
\* (lines 234-235), those of lines 248-256 and the empty one of line 329.
replace_field(s, m) ==
    IF ~startswith(m.c[3], "[[")
    THEN (IF m.c[1] \in {NoneVal, ""} THEN "" ELSE m.c[1]) \o m.c[2] \o "::" \o m.c[3]
    ELSE group0(s, m)
bold_repl(s, m) == "**" \o m.c[1] \o "**"
italic_repl(s, m) == "__" \o m.c[1] \o "__"
highlight_repl(s, m) == "^^" \o m.c[1] \o "^^"
image_repl(s, m) ==
    IF m.c[1] # "" THEN m.c[1] \o "::!" \o m.c[1] \o " " \o m.c[2]
    ELSE "!Image " \o m.c[2]
link_repl(s, m) == m.c[1] \o " " \o m.c[2]
tag_repl(s, m) ==
    IF contains(m.c[1], " ") THEN "#[[" \o m.c[1] \o "]]"
    ELSE IF ~startswith(m.c[1], "[[") THEN "#" \o m.c[1]
    ELSE "(" \o m.c[1] \o ")"
no_repl(s, m) == ""
replacement(repl, s, m) ==
    CASE repl = "replace_field" -> replace_field(s, m)
      [] repl = "bold" -> bold_repl(s, m)
      [] repl = "italic" -> italic_repl(s, m)
      [] repl = "highlight" -> highlight_repl(s, m)
      [] repl = "image" -> image_repl(s, m)
      [] repl = "link" -> link_repl(s, m)
      [] repl = "tag" -> tag_repl(s, m)
      [] repl = "" -> no_repl(s, m)

\* re.sub(r, repl, s): every match of ms replaced by what repl makes of it.
Substituted(s, ms, repl) ==
    Splice(s, ms, [k \in 1..Len(ms) |-> replacement(repl, s, ms[k])], 1, 0)
re_sub(r, repl, s) == Substituted(s, finditer(r, s, 0), repl)

field_re ==
    Cat(<<BolM,
          Opt(Grp(1, Cat(<<Star(Set(WS)), Set({"-", "*", "+"}), Plus(Set(WS))>>))),
          Grp(2, Plus(NSet({":", "\n"}))), Lit(":"), Plus(Set(WS)),
          Grp(3, Plus(NSet({"\n"}))), EolM>>)

convert_fields(text) ==
    IF contains(text, "::") THEN text
    ELSE IF contains(text, "|") THEN text
    ELSE re_sub(field_re, "replace_field", text)

bold_re == Cat(<<Lit("**"), Grp(1, Plus(NSet({"*"}))), Lit("**")>>)
italic_re == Cat(<<Lit("*"), Grp(1, Plus(NSet({"*"}))), Lit("*")>>)
highlight_re == Cat(<<Lit("=="), Grp(1, Plus(NSet({"="}))), Lit("==")>>)
image_re == Cat(<<Lit("!["), Grp(1, Star(NSet({"]"}))), Lit("]("),
                  Grp(2, Plus(NSet({")"}))), Lit(")")>>)
link_re == Cat(<<Lit("["), Grp(1, Plus(NSet({"]"}))), Lit("]("),
                 Grp(2, Plus(NSet({")"}))), Lit(")")>>)
tag_re == Cat(<<Lit("("), Grp(1, Plus(NSet({")"}))), Lit(")")>>)

sub_bold(text) == re_sub(bold_re, "bold", text)
sub_italic(text) == re_sub(italic_re, "italic", text)
sub_highlight(text) == re_sub(highlight_re, "highlight", text)
sub_images(text) == re_sub(image_re, "image", text)
sub_links(text) == re_sub(link_re, "link", text)
sub_tags(text) == re_sub(tag_re, "tag", text)

process_inline_formatting(text) ==
    restore(sub_tags(sub_links(sub_images(sub_highlight(sub_italic(sub_bold(
                protect(text))))))),
            protected_items(text))

\* re.sub(r'^[-*+]\s+(?!\[[ x]\])', '', content)  (line 329)
list_marker_re ==
    Cat(<<Bol, Set({"-", "*", "+"}), Plus(Set(WS)),
          NegLook(Cat(<<Lit("["), Set({" ", "x"}), Lit("]")>>))>>)
strip_list_marker(text) == re_sub(list_marker_re, "", text)

\* re.match(r'^(#{1,6})\s+(.+)$', content)  (line 324)
heading_re == Cat(<<Bol, Grp(1, Rep(Lit("#"), 1, 6)), Plus(Set(WS)),
                    Grp(2, Plus(Dot)), Eol>>)

\* process_code_block: '\n'.join(line.strip() for line in lines[1:-1])
process_code_block(lines) ==
    join("\n", [k \in 1..(Len(lines) - 2) |-> strip(lines[k + 1])])

\* ------------------------------------------------------ line classifier
\* None where the source holds an index (Line.parent, last_header,
\* code_block_parent); -1 is the source's own "top level".
NoneIdx == -2

\* A backquote cannot be written in a TLA+ string: it is written "~" here,
\* and the fence delimiter of three backquotes is "~~~".
Fence == "~~~"

Line(content, indent, raw, is_header, is_code_block) ==
    [content |-> content, indent |-> indent, raw |-> raw, is_header |-> is_header,
     is_code_block |-> is_code_block, parent |-> NoneIdx]

parse_line(line) ==
    LET spaces == LeadWS(line, 0)
        indent == spaces \div 2
        content == rstrip(From(line, spaces))
    IN  Line(content, indent, line, startswith(content, "#"),
             startswith(content, Fence))

\* ---------------------------------------------------- hierarchy builder
\* len(re.match(r'^#+', content).group(0)) from offset i on
HashRun(s, i) == Run(Lit("#"), s, i, Inf)

\* while len(l) > n: l.pop()
RECURSIVE pop_while(_, _)
pop_while(l, n) == IF Len(l) > n THEN pop_while(SubSeq(l, 1, Len(l) - 1), n) ELSE l

\* The locals of build_hierarchy before its loop (lines 52-56).
build_start ==
    [i |-> 0, last_header |-> NoneIdx, last_parent_at_level |-> <<-1>>,
     in_code_block |-> FALSE, code_block_parent |-> NoneIdx]

\* The branch of the loop body for a fence line or a line inside a block
\* (lines 66-74).
build_code(ls, b) ==
    LET i == b.i
        line == ls[i + 1]
        opened == ~b.in_code_block
        in1 == IF opened THEN TRUE ELSE b.in_code_block
        parent1 == IF opened
                   THEN b.last_parent_at_level[Len(b.last_parent_at_level)]
                   ELSE b.code_block_parent
        closes == line.is_code_block /\ in1
    IN  [lines |-> [ls EXCEPT ![i + 1].parent = parent1],
         b |-> [b EXCEPT !.i = i + 1,
                         !.in_code_block = IF closes THEN FALSE ELSE in1,
                         !.code_block_parent = IF closes THEN NoneIdx ELSE parent1],
         exc |-> ""]

\* build_header with the header linked after last_header is updated:
\* the header becomes its own parent.
build_header_linked_late(ls, b) ==
    LET i == b.i
        content == strip(ls[i + 1].content)
        level == IF Run(Lit("#"), content, 0, Inf) > 0
                 THEN Run(Lit("#"), content, 0, Inf) ELSE 1
        kept == SubSeq(b.last_parent_at_level, 1,
                       IF level < Len(b.last_parent_at_level) THEN level
                       ELSE Len(b.last_parent_at_level))
    IN  [lines |-> [ls EXCEPT ![i + 1].parent = i],
         b |-> [b EXCEPT !.i = i + 1, !.last_header = i,
                         !.last_parent_at_level = Append(kept, i)],
         exc |-> ""]

\* The branch for a header (lines 77-84).
build_header(ls, b) ==
    LET i == b.i
        content == strip(ls[i + 1].content)
        level == IF HashRun(content, 0) > 0 THEN HashRun(content, 0) ELSE 1
        kept == SubSeq(b.last_parent_at_level, 1,
                       IF level < Len(b.last_parent_at_level) THEN level
                       ELSE Len(b.last_parent_at_level))
    IN  [lines |-> [ls EXCEPT ![i + 1].parent = -1],
         b |-> [b EXCEPT !.i = i + 1, !.last_header = i,
                         !.last_parent_at_level = Append(kept, i)],
         exc |-> ""]

\* build_content without the link to the last header: a line without
\* indentation gets no parent.
build_content_unlinked(ls, b) ==
    LET i == b.i
        effective_indent == ls[i + 1].indent
        popped == pop_while(b.last_parent_at_level, effective_indent + 1)
        out_of_range == effective_indent > 0 /\ effective_indent - 1 >= Len(popped)
        parent == IF effective_indent > 0 THEN popped[effective_indent] ELSE -1
        tracked == IF effective_indent >= Len(popped) THEN Append(popped, i)
                   ELSE [popped EXCEPT ![effective_indent + 1] = i]
    IN  IF out_of_range
        THEN [lines |-> ls, b |-> [b EXCEPT !.last_parent_at_level = popped],
              exc |-> "IndexError"]
        ELSE [lines |-> [ls EXCEPT ![i + 1].parent = parent],
              b |-> [b EXCEPT !.i = i + 1, !.last_parent_at_level = tracked],
              exc |-> ""]

\* The branch for list items and content (lines 87-104).  Indexing
\* last_parent_at_level past its end raises IndexError.
build_content(ls, b) ==
    LET i == b.i
        effective_indent == ls[i + 1].indent
        popped == pop_while(b.last_parent_at_level, effective_indent + 1)
        under_header == effective_indent = 0 /\ b.last_header # NoneIdx
        out_of_range == ~under_header /\ effective_indent > 0
                        /\ effective_indent - 1 >= Len(popped)
        parent == IF under_header THEN b.last_header
                  ELSE IF effective_indent > 0 THEN popped[effective_indent]
                  ELSE -1
        tracked == IF effective_indent >= Len(popped) THEN Append(popped, i)
                   ELSE [popped EXCEPT ![effective_indent + 1] = i]
    IN  IF out_of_range
        THEN [lines |-> ls, b |-> [b EXCEPT !.last_parent_at_level = popped],
              exc |-> "IndexError"]
        ELSE [lines |-> [ls EXCEPT ![i + 1].parent = parent],
              b |-> [b EXCEPT !.i = i + 1, !.last_parent_at_level = tracked],
              exc |-> ""]

\* One iteration of the loop of build_hierarchy (lines 58-104) on line b.i.
build_hierarchy(ls, b) ==
    LET line == ls[b.i + 1]
    IN  IF strip(line.content) = ""
        THEN [lines |-> ls, b |-> [b EXCEPT !.i = b.i + 1], exc |-> ""]
        ELSE IF line.is_code_block \/ b.in_code_block THEN build_code(ls, b)
        ELSE IF line.is_header THEN build_header(ls, b)
        ELSE build_content(ls, b)

\* --------------------------------------------------------------- emitter
\* The parent-chain walk of lines 299-302 from the line at index current,
\* having counted depth hops.  A walk of more hops than there are lines has
\* entered a cycle and never ends: the result is -1.
RECURSIVE walk(_, _, _, _)
walk(ls, current, depth, fuel) ==
    IF ls[current + 1].parent >= 0
    THEN IF fuel = 0 THEN -1
         ELSE walk(ls, ls[current + 1].parent, depth + 1, fuel - 1)
    ELSE depth

\* depth of lines 296-303 for the line at index i (0 when indent stays "").
line_depth(ls, i) ==
    IF ls[i + 1].parent >= 0 THEN walk(ls, ls[i + 1].parent, 1, Len(ls)) ELSE 0

\* The locals of convert_to_tana before its loop (lines 286-288).  nodes
\* records each output.append: the line it was made at, the depth computed
\* for it and its text; depths records the depth computed for every
\* non-blank line.  Neither is read by the conversion.
emit_start ==
    [i |-> 0, output |-> <<"%%tana%%">>, in_code_block |-> FALSE,
     code_block_lines |-> <<>>, nodes |-> <<>>, depths |-> <<>>]

\* A header's content (lines 323-326).
heading_text(m, content) == IF m.ok THEN "!! " \o m.c[2] ELSE content
header_content(content) == heading_text(re_match(heading_re, content), content)

\* Any other line's content (lines 329-338).
formatted(dated) ==
    IF dated.kind = "raise" THEN dated ELSE process_inline_formatting(dated.v)
rewrite(content) == formatted(convert_dates(convert_fields(strip_list_marker(content))))

Node(i, depth, text, kind) == [line |-> i, depth |-> depth, text |-> text, kind |-> kind]

\* The code-block branch of the loop body (lines 306-317).
emit_code(line, e, indent, depth) ==
    IF ~e.in_code_block
    THEN [e EXCEPT !.i = e.i + 1, !.in_code_block = TRUE,
                   !.code_block_lines = <<line.raw>>]
    ELSE IF line.is_code_block
    THEN LET block == Append(e.code_block_lines, line.raw)
         IN  [e EXCEPT !.i = e.i + 1, !.in_code_block = FALSE,
                       !.code_block_lines = <<>>,
                       !.output = Append(e.output,
                                         indent \o "- " \o process_code_block(block)),
                       !.nodes = Append(e.nodes,
                                        Node(e.i, depth, process_code_block(block), "code"))]
    ELSE [e EXCEPT !.i = e.i + 1,
                   !.code_block_lines = Append(e.code_block_lines, line.raw)]

\* The end of the loop body (lines 319-340): the processed content is
\* appended, or the exception raised while processing it leaves the loop.
emit_node(line, e, indent, depth, processed) ==
    IF processed.kind = "raise" THEN [e |-> e, exc |-> processed.exc]
    ELSE [e |-> [e EXCEPT !.i = e.i + 1,
                          !.output = Append(e.output, indent \o "- " \o processed.v),
                          !.nodes = Append(e.nodes,
                                           Node(e.i, depth, processed.v,
                                                IF line.is_header THEN "header"
                                                ELSE "text"))],
          exc |-> ""]

\* One iteration of the loop of convert_to_tana (lines 290-340) on line e.i.
emit_line(ls, e0) ==
    LET line == ls[e0.i + 1]
        content == strip(line.content)
        depth == line_depth(ls, e0.i)
        indent == repeat("  ", depth)
        e == [e0 EXCEPT !.depths = Append(e0.depths, [line |-> e0.i, depth |-> depth])]
    IN  IF content = ""
        THEN [e |-> [e0 EXCEPT !.i = e0.i + 1], exc |-> ""]
        ELSE IF depth < 0 THEN [e |-> e0, exc |-> "<never returns>"]
        ELSE IF line.is_code_block \/ e.in_code_block
        THEN [e |-> emit_code(line, e, indent, depth), exc |-> ""]
        ELSE emit_node(line, e, indent, depth,
                       IF line.is_header THEN Str(header_content(content))
                       ELSE rewrite(content))

\* ---------------------------------------------------------------- chunker
\* The locals of chunk_content before its loop (lines 353-360): the header
\* line opens the current chunk and is dropped from the lines to place.
HeaderLine == "%%tana%%"
content_lines(ls) == IF ls[1] = HeaderLine THEN Tail(ls) ELSE ls
chunk_start(content, max_chunk_size) ==
    [max_chunk_size |-> max_chunk_size, lines |-> content_lines(split(content)),
     i |-> 0, chunks |-> <<>>, current_chunk |-> <<HeaderLine>>,
     current_size |-> Len(HeaderLine \o "\n")]

\* No call of chunk_content is under way.
chunk_idle ==
    [max_chunk_size |-> 0, lines |-> <<>>, i |-> 0, chunks |-> <<>>,
     current_chunk |-> <<>>, current_size |-> 0]

\* chunk_line closing the current chunk only once it is over the budget,
\* not when the next line would take it over.
chunk_line_late(c) ==
    LET line == c.lines[c.i + 1]
        line_size == Len(line) + 1
        full == c.current_size > c.max_chunk_size /\ Len(c.current_chunk) > 1
    IN  [c EXCEPT !.i = c.i + 1,
                  !.chunks = IF full THEN Append(c.chunks, join("\n", c.current_chunk))
                             ELSE c.chunks,
                  !.current_chunk = IF full THEN <<HeaderLine, line>>
                                    ELSE Append(c.current_chunk, line),
                  !.current_size = IF full THEN Len(HeaderLine \o "\n") + line_size
                                   ELSE c.current_size + line_size]

\* One iteration of the loop of chunk_content (lines 362-373) on line c.i.
chunk_line(c) ==
    LET line == c.lines[c.i + 1]
        line_size == Len(line) + 1
        full == c.current_size + line_size > c.max_chunk_size /\ Len(c.current_chunk) > 1
    IN  [c EXCEPT !.i = c.i + 1,
                  !.chunks = IF full THEN Append(c.chunks, join("\n", c.current_chunk))
                             ELSE c.chunks,
                  !.current_chunk = IF full THEN <<HeaderLine, line>>
                                    ELSE Append(c.current_chunk, line),
                  !.current_size = IF full THEN Len(HeaderLine \o "\n") + line_size
                                   ELSE c.current_size + line_size]

\* chunk_end without the last chunk: the lines placed since the last
\* chunk was closed are not returned.
chunk_end_unflushed(c) == c.chunks

\* The chunks returned once the loop is over (lines 376-379).
chunk_end(c) ==
    IF Len(c.current_chunk) > 1 THEN Append(c.chunks, join("\n", c.current_chunk))
    ELSE c.chunks

\* ---------------------------------------------------------------- inputs
\* The line shapes documents are made of: blank, text at indent levels 0, 1
\* and 2, headings of levels 1 and 2, a list item, a fence delimiter.
LineShapes == {"", "a", "  b", "    c", "# H", "## G", "- i", Fence}

Docs == UNION {[1..n -> LineShapes] : n \in 0..MaxLines}

\* Longer documents, lines with dates, and a block whose second interior
\* line is an output line equal to the header line.
Scenarios ==
    {"# Title\n\nSome text\n- item one\n- item two\n",
     "Meeting on March 5th, 2024, 3:00 PM",
     "Due Jan 12, 2025, 12:05 AM ok",
     "At Dec 1st, 1999, 12:30 PM",
     "On May 3rd, 2024, 9:15 AM we met",
     "see 2024-03-05 and 12345",
     "a\n~~~\n# H\n    c\n~~~\na",
     "~~~\na\n\n  b\n~~~\n- i",
     "# H\na\n- i\n  b",
     "### T\n- i\n###### S\na",
     "~~~\na\n%%tana%%\n~~~"}

Inputs == {join("\n", d) : d \in Docs} \cup Scenarios

\* The budgets main hands to chunk_content (--chunk-size).
Budgets == 1..MaxBudget

\* ----------------------------------------------------------------- state
VARIABLES
    pc,          \* where main is: start, build, emit, done, chunk, chunked,
                 \* raised, hang
    input_text,  \* the argument of convert_to_tana
    lines,       \* the Line records (build_hierarchy's result shares them)
    bh,          \* the locals of build_hierarchy
    em,          \* the locals of convert_to_tana's loop
    result,      \* what convert_to_tana returned
    exc,         \* the exception convert_to_tana raised
    ck,          \* the locals of chunk_content
    chunks       \* what chunk_content returned

vars == <<pc, input_text, lines, bh, em, result, exc, ck, chunks>>

Init ==
    /\ input_text \in Inputs
    /\ pc = "start"
    /\ lines = <<>>
    /\ bh = build_start
    /\ em = emit_start
    /\ result = NoneVal
    /\ exc = ""
    /\ ck = chunk_idle
    /\ chunks = <<>>

\* convert_to_tana up to the call of build_hierarchy (lines 276-283).
Start ==
    /\ pc = "start"
    /\ IF input_text = ""
       THEN /\ result' = "No text selected."
            /\ pc' = "done"
            /\ UNCHANGED lines
       ELSE /\ lines' = [k \in 1..Len(split(input_text)) |->
                           parse_line(split(input_text)[k])]
            /\ pc' = "build"
            /\ UNCHANGED result
    /\ UNCHANGED <<input_text, bh, em, exc, ck, chunks>>

\* One iteration of build_hierarchy's loop.
BuildStep ==
    /\ pc = "build"
    /\ bh.i < Len(lines)
    /\ \E r \in {build_hierarchy(lines, bh)} :
           /\ lines' = r.lines
           /\ bh' = r.b
           /\ exc' = r.exc
           /\ pc' = IF r.exc = "" THEN "build" ELSE "raised"
    /\ UNCHANGED <<input_text, em, result, ck, chunks>>

\* build_hierarchy returns (line 106) and the emitter's loop begins.
BuildReturn ==
    /\ pc = "build"
    /\ bh.i = Len(lines)
    /\ pc' = "emit"
    /\ UNCHANGED <<input_text, lines, bh, em, result, exc, ck, chunks>>

\* One iteration of the emitter's loop.
EmitStep ==
    /\ pc = "emit"
    /\ em.i < Len(lines)
    /\ \E r \in {emit_line(lines, em)} :
           /\ em' = r.e
           /\ exc' = r.exc
           /\ pc' = IF r.exc = "" THEN "emit"
                    ELSE IF r.exc = "<never returns>" THEN "hang" ELSE "raised"
    /\ UNCHANGED <<input_text, lines, bh, result, ck, chunks>>

\* return '\n'.join(output)  (line 342)
EmitReturn ==
    /\ pc = "emit"
    /\ em.i = Len(lines)
    /\ result' = join("\n", em.output)
    /\ pc' = "done"
    /\ UNCHANGED <<input_text, lines, bh, em, exc, ck, chunks>>

\* main calls chunk_content on the converted text (line 401); a content
\* within the budget is returned whole (lines 350-351).
ChunkCall ==
    /\ pc = "done"
    /\ \E max_chunk_size \in Budgets :
           IF Len(result) <= max_chunk_size
           THEN /\ chunks' = <<result>>
                /\ ck' = [chunk_idle EXCEPT !.max_chunk_size = max_chunk_size]
                /\ pc' = "chunked"
           ELSE /\ ck' = chunk_start(result, max_chunk_size)
                /\ pc' = "chunk"
                /\ UNCHANGED chunks
    /\ UNCHANGED <<input_text, lines, bh, em, result, exc>>

\* One iteration of chunk_content's loop.
ChunkStep ==
    /\ pc = "chunk"
    /\ ck.i < Len(ck.lines)
    /\ ck' = chunk_line(ck)
    /\ UNCHANGED <<pc, input_text, lines, bh, em, result, exc, chunks>>

\* chunk_content returns (lines 376-379).
ChunkReturn ==
    /\ pc = "chunk"
    /\ ck.i = Len(ck.lines)
    /\ chunks' = chunk_end(ck)
    /\ pc' = "chunked"
    /\ UNCHANGED <<input_text, lines, bh, em, result, exc, ck>>

Next ==
    \/ Start \/ BuildStep \/ BuildReturn \/ EmitStep \/ EmitReturn
    \/ ChunkCall \/ ChunkStep \/ ChunkReturn

Spec == Init /\ [][Next]_vars

\* ------------------------------------------------------------ properties
\* convert_to_tana has returned.
Converted == pc \in {"done", "chunk", "chunked"}
\* build_hierarchy has returned.
Built == pc \notin {"start", "build"} /\ bh.i = Len(lines)

NonBlank(l) == strip(l.content) # ""
\* The nodes appended so far, as <<depth, text>>.
Outline == [k \in 1..Len(em.nodes) |-> <<em.nodes[k].depth, em.nodes[k].text>>]

\* C1: convert_to_tana never raises and always returns: the fallback
\* message for the empty input, converted text (beginning with the header
\* line) for every other input, whatever its lines' shapes, indentation
\* and date-like spans.
C1_NeverRaises ==
    /\ pc \notin {"raised", "hang"}
    /\ (Converted /\ input_text = "") => result = "No text selected."
    /\ (Converted /\ input_text # "") => startswith(result, HeaderLine)

\* A line indented two levels deeper than any line before it ends the
\* call with IndexError.
C1_DeepIndentRaises == pc = "raised" /\ exc = "IndexError" /\ input_text = "    c"

C2Doc == "# Title\n\nSome text\n- item one\n- item two\n"

item_re == Cat(<<Alt(<<Set({"-", "*", "+"}), Cat(<<Plus(Set(Digit)), Lit(".")>>)>>),
                 Plus(Set(WS))>>)
IsListItem0(l) == l.indent = 0 /\ re_match(item_re, l.content).ok
IsParagraph(l) ==
    /\ NonBlank(l) /\ l.indent = 0
    /\ ~l.is_header /\ ~l.is_code_block /\ ~re_match(item_re, l.content).ok
NoFenceUpTo(n) == \A j \in 1..n : j <= Len(lines) => ~lines[j].is_code_block

\* C3: a zero-indent list item on the line right after a heading is
\* rendered one level deeper than the heading; with a paragraph line
\* between the two, it is rendered one level deeper than the paragraph.
\* (Stated for the lines outside code blocks; lines[h] is the heading.)
C3_ListItemNesting ==
    Converted =>
      \A h \in 1..Len(lines) :
        (lines[h].is_header /\ NoFenceUpTo(h + 2)) =>
          /\ (h + 1 <= Len(lines) /\ IsListItem0(lines[h + 1])) =>
               line_depth(lines, h) = line_depth(lines, h - 1) + 1
          /\ (h + 2 <= Len(lines) /\ IsParagraph(lines[h + 1])
              /\ IsListItem0(lines[h + 2])) =>
               line_depth(lines, h + 1) = line_depth(lines, h) + 1

\* The item after a paragraph under a heading is rendered at the
\* paragraph's own depth.
C3_ItemBesideParagraph ==
    /\ pc = "done" /\ input_text = "# H\na\n- i"
    /\ Outline = << <<0, "!! H">>, <<1, "a">>, <<1, "i">> >>

\* C4: a heading line of level L (L in 1..6) is rendered with 2*(L-1)
\* spaces of indentation (depth L-1) and the content "!! " followed by the
\* heading's text.
C4_HeadingDepth ==
    \A k \in 1..Len(em.nodes) :
      \A m \in {re_match(heading_re, strip(lines[em.nodes[k].line + 1].content))} :
        (em.nodes[k].kind = "header" /\ m.ok) =>
          /\ em.nodes[k].depth = Len(m.c[1]) - 1
          /\ em.nodes[k].text = "!! " \o m.c[2]
          /\ em.output[k + 1] = repeat("  ", Len(m.c[1]) - 1) \o "- !! " \o m.c[2]

\* A level-2 heading is rendered without indentation.
C4_Level2AtDepth0 ==
    pc = "done" /\ input_text = "## G" /\ result = "%%tana%%\n- !! G"

\* The fence delimiters pair up in document order: lines[o] opens a block
\* that lines[c] closes.
FencesBefore(j) == Cardinality({q \in 1..(j - 1) : lines[q].is_code_block})
FencePair(o, c) ==
    /\ o < c /\ lines[o].is_code_block /\ lines[c].is_code_block
    /\ FencesBefore(o) % 2 = 0
    /\ FencesBefore(c) = FencesBefore(o) + 1

\* C5: every fenced block produces exactly one node, whose text is the
\* block's interior lines (blank ones included) joined with line breaks,
\* without the two fence lines.
C5_CodeBlockOneNode ==
    Converted =>
      \A o \in 1..Len(lines) : \A c \in 1..Len(lines) :
        FencePair(o, c) =>
          \A made \in {{k \in 1..Len(em.nodes) :
                          em.nodes[k].line + 1 \in o..c}} :
            /\ Cardinality(made) = 1
            /\ \A k \in made :
                 em.nodes[k].text =
                   join("\n", [q \in 1..(c - o - 1) |-> lines[o + q].raw])

\* A block with a blank interior line and an indented one is rendered
\* without the blank line and without the indentation.
C5_BlankInteriorDropped ==
    /\ pc = "done" /\ input_text = "~~~\na\n\n  b\n~~~\n- i"
    /\ \E k \in 1..Len(em.nodes) : em.nodes[k].kind = "code" /\ em.nodes[k].text = "a\nb"

\* An output line made of 2*d spaces, "- " and content.
IsNodeLine(s) ==
    /\ Run(Lit(" "), s, 0, Inf) % 2 = 0
    /\ startswith(From(s, Run(Lit(" "), s, 0, Inf)), "- ")

\* C6: for a non-empty input the first line of the output is the header
\* line and every later non-empty line is 2*d spaces, "- " and content.
C6_OutputFormat ==
    (Converted /\ input_text # "") =>
      /\ split(result)[1] = HeaderLine
      /\ \A k \in 2..Len(split(result)) :
           split(result)[k] # "" => IsNodeLine(split(result)[k])

\* The second interior line of a code block is an output line of its own,
\* without indentation and dash.
C6_BareCodeLine ==
    /\ pc = "done" /\ input_text = "~~~\na\n\n  b\n~~~\n- i"
    /\ split(result) = <<HeaderLine, "    - a", "b", "- i">>

\* chunk_content has returned for a content longer than the budget.
Chunked == pc = "chunked" /\ Len(result) > ck.max_chunk_size
\* A chunk that holds the header line and one single line.
SingleLine(chunk) ==
    startswith(chunk, HeaderLine \o "\n") /\ Cardinality(Breaks(chunk)) = 1

C8Expected ==
    ("Meeting on March 5th, 2024, 3:00 PM" :> "Meeting on [[date:2024-03-05 15:00]]")
    @@ ("Due Jan 12, 2025, 12:05 AM ok" :> "Due [[date:2025-01-12 00:05]] ok")
    @@ ("At Dec 1st, 1999, 12:30 PM" :> "At [[date:1999-12-01 12:30]]")
    @@ ("On May 3rd, 2024, 9:15 AM we met" :> "On [[date:2024-05-03 09:15]] we met")

\* C8: a long-form date with clock time in a line is replaced by
\* [[date:YYYY-MM-DD HH:mm]] on the 24-hour clock (12 AM is 00, 12 PM is 12,
\* another PM hour h is h+12), the words around it untouched.
C8_LongDateWithClock ==
    input_text \in DOMAIN C8Expected =>
      /\ pc # "raised"
      /\ Converted => result = HeaderLine \o "\n- " \o C8Expected[input_text]

\* The line of the date scenario ends the call with ValueError.
C8_DateScenarioRaises ==
    /\ pc = "raised" /\ exc = "ValueError"
    /\ input_text = "Meeting on March 5th, 2024, 3:00 PM"

\* C9: once build_hierarchy has returned, the parent of every non-blank
\* line is -1 or the index of an earlier non-blank line; the emitter's walk
\* up the parents ends for every line; and the depth it computes for a line
\* is 0 without a parent and 1 + the depth computed for the parent otherwise.
C9_ParentChains ==
    Built =>
      /\ pc # "hang"
      /\ \A i \in 1..Len(lines) :
           NonBlank(lines[i]) =>
             \/ lines[i].parent = -1
             \/ /\ lines[i].parent >= 0 /\ lines[i].parent < i - 1
                /\ NonBlank(lines[lines[i].parent + 1])
      /\ \A k \in 1..Len(em.depths) :
           \A p \in {lines[em.depths[k].line + 1].parent} :
             IF p = -1 THEN em.depths[k].depth = 0
             ELSE \E q \in 1..(k - 1) :
                    /\ em.depths[q].line = p
                    /\ em.depths[k].depth = 1 + em.depths[q].depth

\* A document has been rendered with a line at depth 2, under a parent
\* that has a parent.
C9_ChainOfTwo ==
    /\ pc = "done"
    /\ \E k \in 1..Len(em.depths) :
         /\ em.depths[k].depth = 2
         /\ lines[lines[em.depths[k].line + 1].parent + 1].parent >= 0

\* C10: in build_hierarchy every line after an opening fence up to its
\* closing fence gets the opening fence's parent (interior lines are not
\* classified as heading, item or text).
C10_FenceInterior ==
    Built =>
      \A o \in 1..Len(lines) : \A c \in 1..Len(lines) :
        FencePair(o, c) =>
          \A j \in (o + 1)..c :
            NonBlank(lines[j]) => lines[j].parent = lines[o].parent

\* An interior line starting with "#" is taken for a heading: it gets no
\* parent, and the line after the block is linked to it.
C10_InteriorHeadingAdopts ==
    /\ pc = "done" /\ input_text = "a\n~~~\n# H\n    c\n~~~\na"
    /\ lines[2].parent = 0 /\ lines[3].parent = -1 /\ lines[6].parent = 2

\* The line at position j lies between a fence delimiter that opens a block
\* and the delimiter that closes it.
InFencePair(j) ==
    \E o \in 1..Len(lines) : \E c \in 1..Len(lines) : FencePair(o, c) /\ o < j /\ j < c
\* A line the emitter owes a node of its own: not blank, not a fence
\* delimiter, not inside a closed fenced block.
Plain(j) == NonBlank(lines[j]) /\ ~lines[j].is_code_block /\ ~InFencePair(j)
\* The nodes made at the line at position j.
NodesOf(j) == {k \in 1..Len(em.nodes) : em.nodes[k].line + 1 = j}

\* C11: once the conversion has returned, every non-blank line that is no
\* fence delimiter and lies in no closed fenced block (the lines after an
\* unclosed opening fence included) has produced exactly one node, and the
\* nodes are in the order of their lines.
C11_NoContentLost ==
    Converted =>
      /\ \A j \in 1..Len(lines) : Plain(j) => Cardinality(NodesOf(j)) = 1
      /\ \A k1 \in 1..Len(em.nodes) : \A k2 \in 1..Len(em.nodes) :
           k1 < k2 => em.nodes[k1].line < em.nodes[k2].line

\* A line after an opening fence that is never closed is converted to
\* nothing: the output is the header line alone.
C11_UnclosedFenceSwallows ==
    /\ pc = "done" /\ input_text = "~~~\na"
    /\ Plain(2) /\ NodesOf(2) = {} /\ result = HeaderLine

\* The lines of the chunks cs[k], cs[k+1], ... without each chunk's leading
\* header line, one after the other.
RECURSIVE ChunkBodies(_, _)
ChunkBodies(cs, k) ==
    IF k > Len(cs) THEN <<>> ELSE Tail(split(cs[k])) \o ChunkBodies(cs, k + 1)

\* C12: for a content that starts with the header line and any budget,
\* every returned chunk starts with the header line, and the lines of the
\* chunks without their header lines, taken in order, are exactly the lines
\* of the content after its header line: no line is lost, duplicated,
\* split or moved.
C12_ChunksKeepLines ==
    (pc = "chunked" /\ split(result)[1] = HeaderLine) =>
      /\ \A k \in 1..Len(chunks) : split(chunks[k])[1] = HeaderLine
      /\ ChunkBodies(chunks, 1) = Tail(split(result))

\* A content longer than the budget has been split into several chunks,
\* one of them holding several lines, and the lines are all there.
C12_SplitKeepsLines ==
    /\ Chunked /\ split(result)[1] = HeaderLine /\ Len(chunks) >= 2
    /\ \E k \in 1..Len(chunks) : Len(split(chunks[k])) >= 3
    /\ ChunkBodies(chunks, 1) = Tail(split(result))

=============================================================================
